---- MODULE Spec2Model ----
(***************************************************************************)
(* A model of the change-integration engine of bernard-rs: the Store       *)
(* (drives, folders, files and the two changelogs), the bootstrap of a     *)
(* drive from an unordered listing (database.rs add_drive,                 *)
(* process_folders, insert_files), the merge of a page of changes          *)
(* (database.rs merge_changes) and the coordinator entry points            *)
(* (lib.rs Bernard::add_drive, Bernard::sync_drive).                       *)
(*                                                                         *)
(* The SQL schema (migrations) is not part of the sources: foreign keys,   *)
(* cascading deletes and the changelog triggers are modelled from the      *)
(* specification (sections 3, 4.1 and 4.4).  The columns trashed, md5,     *)
(* size and mime_type are copied by every statement and read by none of    *)
(* the operations modelled here; rows carry id, drive_id, name and parent. *)
(***************************************************************************)
EXTENDS Integers, Sequences, FiniteSets, TLC

VARIABLES drives, folders, files, folder_changelog, file_changelog,
          pc, last, calls

vars == <<drives, folders, files, folder_changelog, file_changelog, pc, last, calls>>

(***************************************************************************)
(* Bounds of the model.                                                    *)
(***************************************************************************)
\* longest bootstrap listing
MaxList == 2
\* longest listing and longest page when two drives are followed
MaxSeed == 1
\* longest page of changes
MaxPage == 2
\* page tokens are 0..MaxToken
MaxToken == 1
\* coordinator calls made when two drives are followed
MaxCalls == 3

(***************************************************************************)
(* Identifiers.                                                            *)
(***************************************************************************)
DriveIds == {"D1", "D2"}
FolderIds == {"F1", "F2"}
FileIds == {"f1"}
\* an id the remote never sends as an item: a parent nobody has seen
UnknownId == "Z"
\* Option<String>::None, NULL in the parent column
NoParent == "NULL"
DriveNames == {"n0", "n1"}
Tokens == 0..MaxToken

\* the name the remote reports for an item; F1 and f1 share a name
ItemName(id) == IF id = "F2" THEN "b" ELSE "a"

OtherDrive(d) == IF d = "D1" THEN "D2" ELSE "D1"

(***************************************************************************)
(* fetch::Item and fetch::Change.  One record shape for every variant;     *)
(* fields a variant does not have hold "-".                                *)
(***************************************************************************)
FolderItem(id, d, parent) ==
    [folder |-> TRUE, id |-> id, drive_id |-> d, name |-> ItemName(id), parent |-> parent]

FileItem(id, d, parent) ==
    [folder |-> FALSE, id |-> id, drive_id |-> d, name |-> ItemName(id), parent |-> parent]

NoItem == [folder |-> FALSE, id |-> "-", drive_id |-> "-", name |-> "-", parent |-> "-"]

DriveChanged(name) == [kind |-> "DriveChanged", name |-> name, id |-> "-", item |-> NoItem]

DriveRemoved(d) == [kind |-> "DriveRemoved", name |-> "-", id |-> d, item |-> NoItem]

ItemChanged(item) == [kind |-> "ItemChanged", name |-> "-", id |-> item.id, item |-> item]

ItemRemoved(id) == [kind |-> "ItemRemoved", name |-> "-", id |-> id, item |-> NoItem]

\* the rows of the tables
FolderRow(item) ==
    [id |-> item.id, drive_id |-> item.drive_id, name |-> item.name, parent |-> item.parent]

FileRow(item) ==
    [id |-> item.id, drive_id |-> item.drive_id, name |-> item.name, parent |-> item.parent]

ChangelogRow(row, deleted) ==
    [id |-> row.id, drive_id |-> row.drive_id, name |-> row.name,
     parent |-> row.parent, deleted |-> deleted]

(***************************************************************************)
(* The database inside a transaction: a record of the five tables.         *)
(***************************************************************************)
Db == [drives |-> drives, folders |-> folders, files |-> files,
       folder_changelog |-> folder_changelog, file_changelog |-> file_changelog]

EmptyDb == [drives |-> {}, folders |-> {}, files |-> {},
            folder_changelog |-> {}, file_changelog |-> {}]

\* the result of one SQL statement: the database after it and its error
Done(db) == [db |-> db, err |-> "ok"]

Failed(db, err) == [db |-> db, err |-> err]

HasDrive(db, d) == \E r \in db.drives : r.id = d

DriveRowOf(db, d) == CHOOSE r \in db.drives : r.id = d

HasFolder(db, id, d) == \E r \in db.folders : r.id = id /\ r.drive_id = d

HasFile(db, id, d) == \E r \in db.files : r.id = id /\ r.drive_id = d

\* the changelog triggers: one row per (id, drive_id), the latest write wins
LogFolder(db, row, deleted) ==
    [db EXCEPT !.folder_changelog =
        {r \in @ : ~(r.id = row.id /\ r.drive_id = row.drive_id)}
            \cup {ChangelogRow(row, deleted)}]

LogFile(db, row, deleted) ==
    [db EXCEPT !.file_changelog =
        {r \in @ : ~(r.id = row.id /\ r.drive_id = row.drive_id)}
            \cup {ChangelogRow(row, deleted)}]

(***************************************************************************)
(* The SQL statements of model/drive.rs, model/folder.rs and model/file.rs.*)
(* Foreign keys are enforced when the transaction commits (section 4.4:    *)
(* "the database enforces integrity on commit"); a primary key is checked  *)
(* by the INSERT itself.                                                    *)
(***************************************************************************)
\* Drive::create: INSERT INTO drives
DriveCreate(db, d, page_token) ==
    IF HasDrive(db, d) THEN Failed(db, "unique")
    ELSE Done([db EXCEPT !.drives = @ \cup {[id |-> d, page_token |-> page_token]}])

\* Drive::update_page_token: UPDATE drives SET page_token WHERE id
DriveUpdatePageToken(db, d, page_token) ==
    Done([db EXCEPT !.drives =
        {IF r.id = d THEN [r EXCEPT !.page_token = page_token] ELSE r : r \in @}])

\* Folder::create: INSERT INTO folders
FolderCreate(db, row) ==
    IF HasFolder(db, row.id, row.drive_id) THEN Failed(db, "unique")
    ELSE Done(LogFolder([db EXCEPT !.folders = @ \cup {row}], row, FALSE))

\* Folder::upsert: INSERT ... ON CONFLICT (id, drive_id) DO UPDATE
FolderUpsert(db, row) ==
    Done(LogFolder(
        [db EXCEPT !.folders =
            {r \in @ : ~(r.id = row.id /\ r.drive_id = row.drive_id)} \cup {row}],
        row, FALSE))

\* the folders of drive d at or below the folders in S (ON DELETE CASCADE)
RECURSIVE Below(_, _, _)
Below(db, d, S) ==
    LET T == S \cup {r.id : r \in {x \in db.folders : x.drive_id = d /\ x.parent \in S}}
    IN IF T = S THEN S ELSE Below(db, d, T)

\* Folder::delete: DELETE FROM folders WHERE id AND drive_id; the rows below
\* it go with it, and the trigger logs the deleted row alone
FolderDelete(db, id, d) ==
    IF ~HasFolder(db, id, d) THEN Done(db)
    ELSE LET row == CHOOSE r \in db.folders : r.id = id /\ r.drive_id = d
             gone == Below(db, d, {id})
         IN Done(LogFolder(
                [db EXCEPT
                    !.folders = {r \in @ : ~(r.drive_id = d /\ r.id \in gone)},
                    !.files = {r \in @ : ~(r.drive_id = d /\ r.parent \in gone)}],
                row, TRUE))

\* Folder::update_name: UPDATE folders SET name WHERE id AND drive_id
FolderUpdateName(db, id, d, name) ==
    IF ~HasFolder(db, id, d) THEN Done(db)
    ELSE LET row == CHOOSE r \in db.folders : r.id = id /\ r.drive_id = d
             new == [row EXCEPT !.name = name]
         IN Done(LogFolder([db EXCEPT !.folders = (@ \ {row}) \cup {new}], new, FALSE))

\* File::create
FileCreate(db, row) ==
    IF HasFile(db, row.id, row.drive_id) THEN Failed(db, "unique")
    ELSE Done(LogFile([db EXCEPT !.files = @ \cup {row}], row, FALSE))

\* File::upsert
FileUpsert(db, row) ==
    Done(LogFile(
        [db EXCEPT !.files =
            {r \in @ : ~(r.id = row.id /\ r.drive_id = row.drive_id)} \cup {row}],
        row, FALSE))

\* File::delete
FileDelete(db, id, d) ==
    IF ~HasFile(db, id, d) THEN Done(db)
    ELSE LET row == CHOOSE r \in db.files : r.id = id /\ r.drive_id = d
         IN Done(LogFile([db EXCEPT !.files = @ \ {row}], row, TRUE))

\* the foreign keys of folders and files
ForeignKeysHold(db) ==
    /\ \A r \in db.folders :
        /\ HasDrive(db, r.drive_id)
        /\ r.parent = NoParent \/ HasFolder(db, r.parent, r.drive_id)
    /\ \A r \in db.files :
        /\ HasDrive(db, r.drive_id)
        /\ HasFolder(db, r.parent, r.drive_id)

\* tx.commit()
Commit(db) == IF ForeignKeysHold(db) THEN Done(db) ELSE Failed(db, "fk")

\* clear_changelog without its ChangedFile::clear
ClearChangelogFoldersOnly(db, d) ==
    [db EXCEPT !.folder_changelog = {r \in @ : r.drive_id # d}]

\* ChangedFolder::clear and ChangedFile::clear (database.rs clear_changelog)
ClearChangelogDb(db, d) ==
    [db EXCEPT !.folder_changelog = {r \in @ : r.drive_id # d},
               !.file_changelog = {r \in @ : r.drive_id # d}]

(***************************************************************************)
(* A transaction: the database as the transaction sees it, the number of   *)
(* statements run, the error that ended it ("ok" while it runs), and       *)
(* whether any statement failed, swallowed or not, and whether one failed  *)
(* with an I/O error.  Statement number `fault` fails with an I/O error    *)
(* (0: none does).                                                         *)
(***************************************************************************)
Begin(db) == [db |-> db, n |-> 0, err |-> "ok", failed |-> FALSE, io |-> FALSE]

Run(tx, fault, res) ==
    IF tx.err # "ok" THEN tx
    ELSE IF tx.n + 1 = fault
         THEN [db |-> tx.db, n |-> tx.n + 1, err |-> "io", failed |-> TRUE, io |-> TRUE]
         ELSE [db |-> IF res.err = "ok" THEN res.db ELSE tx.db, n |-> tx.n + 1,
               err |-> res.err, failed |-> tx.failed \/ res.err # "ok", io |-> tx.io]

\* `match stmt { Ok(_) => .., Err(e) => error!(..) }`: the error is logged and dropped
Swallow(tx) == [tx EXCEPT !.err = "ok"]

\* the conversion without its DataIntegrity arm
ErrorOfAllDatabase(err) == IF err = "ok" THEN "Ok" ELSE "Database"

\* impl From<database::Error> for Error
ErrorOf(err) ==
    CASE err = "ok" -> "Ok"
      [] err = "fk" -> "PartialChangeList"
      [] OTHER -> "Database"

(***************************************************************************)
(* The bootstrap: database.rs add_drive, process_folders, insert_files.    *)
(***************************************************************************)
\* items.into_iter().partition(|item| matches!(item, Item::Folder(_)))
FoldersOf(items) == SelectSeq(items, LAMBDA it : it.folder)

FilesOf(items) == SelectSeq(items, LAMBDA it : ~it.folder)

\* folder_map.get(&parent): the listed folders with that parent, in listing order
FolderMapGet(listed, parent) == SelectSeq(listed, LAMBDA f : f.parent = parent)

\* the loop over the children with a created folder queued twice
RECURSIVE CreateChildrenPushTwice(_, _, _, _, _)
CreateChildrenPushTwice(s, fault, parent, children, i) ==
    IF i > Len(children) THEN s
    ELSE IF parent # NoParent /\ parent \notin s.folder_ids
         THEN CreateChildrenPushTwice(s, fault, parent, children, i + 1)
         ELSE LET t == Run(s.tx, fault, FolderCreate(s.tx.db, FolderRow(children[i])))
              IN IF t.err = "ok"
                 THEN CreateChildrenPushTwice(
                        [tx |-> t,
                         queue |-> Append(Append(s.queue, children[i].id), children[i].id),
                         folder_ids |-> s.folder_ids \cup {children[i].id}],
                        fault, parent, children, i + 1)
                 ELSE CreateChildrenPushTwice([s EXCEPT !.tx = Swallow(t)],
                        fault, parent, children, i + 1)

\* the state of process_folders: the transaction, the queue and folder_ids
RECURSIVE CreateChildren(_, _, _, _, _)
CreateChildren(s, fault, parent, children, i) ==
    IF i > Len(children) THEN s
    ELSE IF parent # NoParent /\ parent \notin s.folder_ids
         THEN CreateChildren(s, fault, parent, children, i + 1)
         ELSE LET t == Run(s.tx, fault, FolderCreate(s.tx.db, FolderRow(children[i])))
              IN IF t.err = "ok"
                 THEN CreateChildren(
                        [tx |-> t, queue |-> Append(s.queue, children[i].id),
                         folder_ids |-> s.folder_ids \cup {children[i].id}],
                        fault, parent, children, i + 1)
                 ELSE CreateChildren([s EXCEPT !.tx = Swallow(t)],
                        fault, parent, children, i + 1)

\* process_folders without its queue: one pass over the listing in its order, a folder
\* inserted only when its parent was inserted before it
RECURSIVE ProcessInListingOrder(_, _, _)
ProcessInListingOrder(s, fault, listed) ==
    IF listed = <<>> THEN s.tx
    ELSE ProcessInListingOrder(
            [CreateChildren([s EXCEPT !.queue = <<>>], fault, Head(listed).parent,
                            <<Head(listed)>>, 1) EXCEPT !.queue = <<>>],
            fault, Tail(listed))

\* while let Some(parent) = queue.pop_front()
RECURSIVE ProcessQueue(_, _, _)
ProcessQueue(s, fault, listed) ==
    IF s.queue = <<>> THEN s.tx
    ELSE ProcessQueue(
            CreateChildren([s EXCEPT !.queue = Tail(@)], fault, Head(s.queue),
                           FolderMapGet(listed, Head(s.queue)), 1),
            fault, listed)

\* process_folders(tx, drive_id, folder_map, root_folder_id)
process_folders(tx, fault, d, listed) ==
    ProcessQueue([tx |-> tx, queue |-> <<d>>, folder_ids |-> {d}], fault, listed)

\* folder_map.values().flatten().any(|folder| &folder.id == &file.parent)
FileParentListed(listed, file) ==
    \E k \in 1..Len(listed) : listed[k].id = file.parent

\* insert_files(tx, files, folder_map)
RECURSIVE insert_files(_, _, _, _)
insert_files(tx, fault, listed, fs) ==
    IF fs = <<>> THEN tx
    ELSE IF ~FileParentListed(listed, Head(fs))
         THEN insert_files(tx, fault, listed, Tail(fs))
         ELSE insert_files(
                Swallow(Run(tx, fault, FileCreate(tx.db, FileRow(Head(fs))))),
                fault, listed, Tail(fs))

\* add_drive whose two creates are written as upserts
add_drive_replacing(db, d, name, page_token, items, fault) ==
    LET t1 == Run(Begin(db), fault,
                  Done([db EXCEPT !.drives = {r \in @ : r.id # d}
                                        \cup {[id |-> d, page_token |-> page_token]}]))
        root_folder == [id |-> d, drive_id |-> d, name |-> name, parent |-> NoParent]
        t2 == Run(t1, fault, FolderUpsert(t1.db, root_folder))
        t3 == process_folders(t2, fault, d, FoldersOf(items))
        t4 == insert_files(t3, fault, FoldersOf(items), FilesOf(items))
        t5 == Run(t4, fault, Commit(t4.db))
    IN IF t2.err # "ok" THEN [db |-> db, err |-> t2.err, failed |-> TRUE, io |-> t2.io]
       ELSE IF t5.err # "ok" THEN [db |-> db, err |-> t5.err, failed |-> TRUE, io |-> t5.io]
       ELSE [db |-> t5.db, err |-> "ok", failed |-> t5.failed, io |-> t5.io]

\* database::add_drive(drive_id, name, page_token, items, pool): the database
\* after the call, its error, whether any statement failed, and whether one
\* failed with an I/O error
add_drive(db, d, name, page_token, items, fault) ==
    LET t1 == Run(Begin(db), fault, DriveCreate(db, d, page_token))
        root_folder == [id |-> d, drive_id |-> d, name |-> name, parent |-> NoParent]
        t2 == Run(t1, fault, FolderCreate(t1.db, root_folder))
        t3 == process_folders(t2, fault, d, FoldersOf(items))
        t4 == insert_files(t3, fault, FoldersOf(items), FilesOf(items))
        t5 == Run(t4, fault, Commit(t4.db))
    IN IF t2.err # "ok" THEN [db |-> db, err |-> t2.err, failed |-> TRUE, io |-> t2.io]
       ELSE IF t5.err # "ok" THEN [db |-> db, err |-> t5.err, failed |-> TRUE, io |-> t5.io]
       ELSE [db |-> t5.db, err |-> "ok", failed |-> t5.failed, io |-> t5.io]

(***************************************************************************)
(* The merge of a page of changes: database.rs merge_changes.              *)
(***************************************************************************)
\* item_to_change(drive_id, item).  merge_changes does not call it.
item_to_change(d, item) ==
    IF item.drive_id = d THEN ItemChanged(item) ELSE ItemRemoved(item.id)

\* FolderChange and FileChange: Update(item) or Remove
Update(item) == [remove |-> FALSE, item |-> item]

Remove == [remove |-> TRUE, item |-> NoItem]

\* HashMap::insert
Insert(map, key, value) ==
    [k \in DOMAIN map \cup {key} |-> IF k = key THEN value ELSE map[k]]

EmptyMap == [k \in {} |-> Remove]

\* one turn of `for change in changes { match change { .. } }`
FoldChange(s, fault, d, change) ==
    CASE change.kind = "DriveChanged" ->
            [s EXCEPT !.tx = Run(s.tx, fault, FolderUpdateName(s.tx.db, d, d, change.name))]
      [] change.kind = "DriveRemoved" -> s
      [] change.kind = "ItemChanged" /\ change.item.folder ->
            [s EXCEPT !.folder_changes = Insert(@, change.item.id, Update(change.item))]
      [] change.kind = "ItemChanged" /\ ~change.item.folder ->
            [s EXCEPT !.file_changes = Insert(@, change.item.id, Update(change.item))]
      [] OTHER ->
            IF change.id \notin DOMAIN s.file_changes
            THEN [s EXCEPT !.folder_changes = Insert(@, change.id, Remove)]
            ELSE [s EXCEPT !.file_changes = Insert(@, change.id, Remove)]

\* the loop over the page; a failed statement (`?`) ends the function
RECURSIVE FoldChanges(_, _, _, _)
FoldChanges(s, fault, d, changes) ==
    IF changes = <<>> \/ s.tx.err # "ok" THEN s
    ELSE FoldChanges(FoldChange(s, fault, d, Head(changes)), fault, d, Tail(changes))

\* for (folder_id, change) in folder_changes, in the map's iteration order
RECURSIVE ApplyFolderChanges(_, _, _, _, _)
ApplyFolderChanges(tx, fault, d, folder_changes, order) ==
    IF order = <<>> THEN tx
    ELSE LET change == folder_changes[Head(order)]
         IN ApplyFolderChanges(
                IF change.remove
                THEN Run(tx, fault, FolderDelete(tx.db, Head(order), d))
                ELSE Run(tx, fault, FolderUpsert(tx.db, FolderRow(change.item))),
                fault, d, folder_changes, Tail(order))

\* for (file_id, change) in file_changes
RECURSIVE ApplyFileChanges(_, _, _, _, _)
ApplyFileChanges(tx, fault, d, file_changes, order) ==
    IF order = <<>> THEN tx
    ELSE LET change == file_changes[Head(order)]
         IN ApplyFileChanges(
                IF change.remove
                THEN Run(tx, fault, FileDelete(tx.db, Head(order), d))
                ELSE Run(tx, fault, FileUpsert(tx.db, FileRow(change.item))),
                fault, d, file_changes, Tail(order))

\* the iteration orders a HashMap with the keys S can have
Orders(S) ==
    {o \in [1..Cardinality(S) -> S] : \A i, j \in 1..Cardinality(S) : o[i] = o[j] => i = j}

\* merge_changes up to the end of the loop over the page
Folded(db, d, changes, page_token, fault) ==
    FoldChanges([tx |-> Run(Begin(db), fault, DriveUpdatePageToken(db, d, page_token)),
                 folder_changes |-> EmptyMap, file_changes |-> EmptyMap],
                fault, d, changes)

\* the transaction of merge_changes before its commit
Merged(db, d, changes, page_token, fault, folder_order, file_order) ==
    LET s == Folded(db, d, changes, page_token, fault)
        t1 == ApplyFolderChanges(s.tx, fault, d, s.folder_changes, folder_order)
    IN ApplyFileChanges(t1, fault, d, s.file_changes, file_order)

\* merge_changes without its transaction: each statement is committed as it
\* runs
merge_changes_autocommit(db, d, changes, page_token, fault, folder_order, file_order) ==
    LET t == Merged(db, d, changes, page_token, fault, folder_order, file_order)
        c == Run(t, fault, Commit(t.db))
    IN [db |-> t.db, err |-> c.err, n |-> c.n, io |-> c.io]

\* database::merge_changes(drive_id, changes, page_token, pool): the database
\* after the call, its error, the number of statements run, and whether one
\* failed with an I/O error
merge_changes(db, d, changes, page_token, fault, folder_order, file_order) ==
    LET t == Merged(db, d, changes, page_token, fault, folder_order, file_order)
        c == Run(t, fault, Commit(t.db))
    IN [db |-> IF c.err = "ok" THEN c.db ELSE db, err |-> c.err, n |-> c.n, io |-> c.io]

(***************************************************************************)
(* The changelog readers: model/folder.rs ChangedFolder, model/path.rs     *)
(* ChangedPath and the view path_changelog.                                *)
(***************************************************************************)
\* impl From<FolderChangelog> for ChangedFolder
ChangedFolderFrom(f) ==
    LET folder == [id |-> f.id, drive_id |-> f.drive_id, name |-> f.name, parent |-> f.parent]
    IN IF f.deleted THEN [tag |-> "Created", folder |-> folder]
       ELSE [tag |-> "Deleted", folder |-> folder]

\* ChangedFolder::get_all (database.rs get_changed_folders)
get_changed_folders(db, d) ==
    {ChangedFolderFrom(f) : f \in {r \in db.folder_changelog : r.drive_id = d}}

\* the path of folder id in the current tree: the names from the root folder
\* down, joined by "/"; "" when the chain of parents is broken
RECURSIVE FolderPath(_, _, _, _)
FolderPath(db, d, id, fuel) ==
    IF fuel = 0 \/ ~HasFolder(db, id, d) THEN ""
    ELSE LET row == CHOOSE r \in db.folders : r.id = id /\ r.drive_id = d
         IN IF row.parent = NoParent THEN row.name
            ELSE LET up == FolderPath(db, d, row.parent, fuel - 1)
                 IN IF up = "" THEN "" ELSE up \o "/" \o row.name

\* the path of a changelog row: from its parent up through the current tree
RowPath(db, row) ==
    IF row.parent = NoParent THEN row.name
    ELSE LET up == FolderPath(db, row.drive_id, row.parent, Cardinality(db.folders))
         IN IF up = "" THEN "" ELSE up \o "/" \o row.name

\* the view path_changelog: a row per changelog row whose chain is whole
PathChangelog(db, d) ==
    {[id |-> r.id, drive_id |-> r.drive_id, path |-> RowPath(db, r), folder |-> TRUE,
      deleted |-> r.deleted] : r \in {x \in db.folder_changelog :
                                        x.drive_id = d /\ RowPath(db, x) # ""}}
    \cup
    {[id |-> r.id, drive_id |-> r.drive_id, path |-> RowPath(db, r), folder |-> FALSE,
      deleted |-> r.deleted] : r \in {x \in db.file_changelog :
                                        x.drive_id = d /\ RowPath(db, x) # ""}}

\* impl From<PathChangelog> for ChangedPath
ChangedPathFrom(p) ==
    LET inner == [id |-> p.id, drive_id |-> p.drive_id, path |-> p.path, folder |-> p.folder]
    IN IF p.deleted THEN [tag |-> "Deleted", path |-> inner]
       ELSE [tag |-> "Created", path |-> inner]

\* a map of the rows keyed by the drive id in place of the path string
RECURSIVE UniqueChangesByDrive(_, _)
UniqueChangesByDrive(rows, map) ==
    IF rows = <<>> THEN map
    ELSE UniqueChangesByDrive(Tail(rows), Insert(map, Head(rows).drive_id, Head(rows)))

\* a map that keeps the first row of a path string, not the last
RECURSIVE UniqueChangesKeepFirst(_, _)
UniqueChangesKeepFirst(rows, map) ==
    IF rows = <<>> THEN map
    ELSE UniqueChangesKeepFirst(Tail(rows),
            IF Head(rows).path \in DOMAIN map THEN map
            ELSE Insert(map, Head(rows).path, Head(rows)))

\* unique_changes.insert(changelog.path.clone(), changelog) over the rows in
\* the order the SELECT returned them
RECURSIVE UniqueChanges(_, _)
UniqueChanges(rows, map) ==
    IF rows = <<>> THEN map
    ELSE UniqueChanges(Tail(rows), Insert(map, Head(rows).path, Head(rows)))

\* ChangedPath::get_all (database.rs get_changed_paths), the SELECT
\* returning the rows in the order `order`
get_changed_paths(db, d, order) ==
    LET unique_changes == UniqueChanges(order, [k \in {} |-> 0])
    IN {ChangedPathFrom(unique_changes[k]) : k \in DOMAIN unique_changes}

(***************************************************************************)
(* What the remote can answer.                                             *)
(***************************************************************************)
SeqsUpTo(S, n) == UNION {[1..k -> S] : k \in 0..n}

\* the items fetch.all_files(d) can list
ListingItems(d) ==
    {FolderItem(id, d, p) : id \in FolderIds, p \in {NoParent, d, UnknownId} \cup FolderIds}
        \cup {FileItem(id, d, p) : id \in FileIds, p \in {d, UnknownId} \cup FolderIds}

\* the changes fetch.changes(d, page_token) can report; an item that moved to
\* the other drive is reported with that drive's id, under its root
PageChanges(d) ==
    {DriveChanged(n) : n \in DriveNames}
        \cup {DriveRemoved(d)}
        \cup {ItemRemoved(id) : id \in FolderIds \cup FileIds}
        \cup {ItemChanged(FolderItem(id, d, p)) :
                id \in FolderIds, p \in {d, UnknownId} \cup FolderIds}
        \cup {ItemChanged(FileItem(id, d, p)) :
                id \in FileIds, p \in {d, UnknownId} \cup FolderIds}
        \cup {ItemChanged(FolderItem("F1", OtherDrive(d), OtherDrive(d))),
              ItemChanged(FileItem("f1", OtherDrive(d), OtherDrive(d)))}

\* the changes that name the root folder or carry no parent: the root
\* removed, the root reported as an item (parentless, or under F1), a folder
\* reported without a parent
RootChanges(d) ==
    {DriveChanged(n) : n \in DriveNames}
        \cup {ItemRemoved(d), ItemRemoved("F1")}
        \cup {ItemChanged(FolderItem("F1", d, p)) : p \in {NoParent, d}}
        \cup {ItemChanged(FolderItem(d, d, p)) : p \in {NoParent, "F1"}}

\* the statement of a merge that an I/O error can hit (0: none): the third,
\* which is the commit, the first or the second write of the page
MergeFaults == {0, 3}

(***************************************************************************)
(* The coordinator: lib.rs Bernard::add_drive and Bernard::sync_drive.     *)
(* pc is the caller's position: "idle", "syncing" (sync_drive has cleared  *)
(* the changelog and awaits the fetch) or "returned".  last is the call    *)
(* that is running or has returned, with the Store before it.              *)
(***************************************************************************)
NoCall ==
    [op |-> "none", drive |-> "-", result |-> "-", path |-> "-", items |-> <<>>,
     token |-> 0, pre |-> [drives |-> {}, folders |-> {}, files |-> {}],
     hadlog |-> FALSE, failed |-> FALSE, io |-> FALSE, stmts |-> 0,
     folder_changes |-> EmptyMap, file_changes |-> EmptyMap]

Pre == [drives |-> drives, folders |-> folders, files |-> files]

Install(db) ==
    /\ drives' = db.drives
    /\ folders' = db.folders
    /\ files' = db.files
    /\ folder_changelog' = db.folder_changelog
    /\ file_changelog' = db.file_changelog

Init ==
    /\ drives = {}
    /\ folders = {}
    /\ files = {}
    /\ folder_changelog = {}
    /\ file_changelog = {}
    /\ pc = "idle"
    /\ last = NoCall
    /\ calls = 0

\* Bernard::add_drive from the call `call`: initialise_drive and fill_drive
\* fetch the start token, the name and the listing, the database builds the
\* drive in one transaction, and the changelog is cleared
Bootstrap(call, n) ==
    LET d == call.drive
    IN \/ \* a fetch fails: Error::Network
          /\ Install(Db)
          /\ last' = [call EXCEPT !.result = "Network", !.path = "bootstrap"]
       \/ \* the drive row exists: the transaction ends at Drive::create, before
          \* the listing is used (a listing of MaxSeed items stands for all)
          /\ HasDrive(Db, d)
          /\ \E name \in DriveNames, page_token \in Tokens,
                items \in SeqsUpTo(ListingItems(d), MaxSeed), fault \in 0..1 :
                LET r == add_drive(Db, d, name, page_token, items, fault)
                IN /\ Install(IF r.err = "ok" THEN ClearChangelogDb(r.db, d) ELSE r.db)
                   /\ last' = [call EXCEPT !.result = ErrorOf(r.err), !.path = "bootstrap",
                                           !.failed = r.failed, !.io = r.io]
       \/ /\ ~HasDrive(Db, d)
          /\ \E name \in DriveNames, page_token \in Tokens,
                items \in SeqsUpTo(ListingItems(d), n), fault \in 0..(n + 3) :
                LET r == add_drive(Db, d, name, page_token, items, fault)
                IN /\ Install(IF r.err = "ok" THEN ClearChangelogDb(r.db, d) ELSE r.db)
                   /\ last' = [call EXCEPT !.result = ErrorOf(r.err), !.path = "bootstrap",
                                           !.items = items, !.token = page_token,
                                           !.failed = r.failed, !.io = r.io]

\* Bernard::add_drive(d)
AddDrive(d, n) ==
    /\ pc = "idle"
    /\ pc' = "returned"
    /\ Bootstrap([NoCall EXCEPT !.op = "add_drive", !.drive = d, !.pre = Pre], n)

\* sync_drive without its clear_changelog
SyncDriveStartNoClear(d) ==
    /\ pc = "idle"
    /\ pc' = "syncing"
    /\ Install(Db)
    /\ last' = [NoCall EXCEPT !.op = "sync_drive", !.drive = d, !.pre = Pre,
                              !.hadlog = \E r \in folder_changelog \cup file_changelog :
                                            r.drive_id = d]

\* Bernard::sync_drive(d) up to its fetch: the changelog is cleared
SyncDriveStart(d) ==
    /\ pc = "idle"
    /\ pc' = "syncing"
    /\ Install(ClearChangelogDb(Db, d))
    /\ last' = [NoCall EXCEPT !.op = "sync_drive", !.drive = d, !.pre = Pre,
                              !.hadlog = \E r \in folder_changelog \cup file_changelog :
                                            r.drive_id = d]

\* sync_drive, `None => self.add_drive(drive_id)`
SyncDriveBootstrap(n) ==
    /\ pc = "syncing"
    /\ ~HasDrive(Db, last.drive)
    /\ pc' = "returned"
    /\ Bootstrap(last, n)

\* sync_drive, the fetch of the changes fails
SyncDriveNetworkError ==
    /\ pc = "syncing"
    /\ HasDrive(Db, last.drive)
    /\ pc' = "returned"
    /\ Install(Db)
    /\ last' = [last EXCEPT !.result = "Network"]

\* sync_drive without the comparison of the tokens: the page that came with
\* the stored token is merged
SyncDriveMergeSameToken(n) ==
    /\ pc = "syncing"
    /\ HasDrive(Db, last.drive)
    /\ pc' = "returned"
    /\ \E changes \in SeqsUpTo(PageChanges(last.drive), n) :
        LET page_token == DriveRowOf(Db, last.drive).page_token
            s == Folded(Db, last.drive, changes, page_token, 0)
        IN \E folder_order \in Orders(DOMAIN s.folder_changes),
              file_order \in Orders(DOMAIN s.file_changes) :
            LET r == merge_changes(Db, last.drive, changes, page_token, 0,
                                   folder_order, file_order)
            IN /\ Install(r.db)
               /\ last' = [last EXCEPT !.result = ErrorOf(r.err), !.path = "unchanged",
                                       !.items = changes, !.token = page_token]

\* sync_drive, `if page_token == drive.page_token { return Ok(()) }`, whatever
\* changes came with the token
SyncDriveUnchanged(n) ==
    /\ pc = "syncing"
    /\ HasDrive(Db, last.drive)
    /\ pc' = "returned"
    /\ \E changes \in SeqsUpTo(PageChanges(last.drive), n) :
        /\ Install(Db)
        /\ last' = [last EXCEPT !.result = "Ok", !.path = "unchanged",
                                !.items = changes,
                                !.token = DriveRowOf(Db, last.drive).page_token]

\* sync_drive, database::merge_changes on a page of at most n of the changes
\* `reported`
SyncDriveMerge(n, reported) ==
    /\ pc = "syncing"
    /\ HasDrive(Db, last.drive)
    /\ pc' = "returned"
    /\ \E changes \in SeqsUpTo(reported, n),
          page_token \in Tokens \ {DriveRowOf(Db, last.drive).page_token},
          fault \in MergeFaults :
        LET s == Folded(Db, last.drive, changes, page_token, fault)
        IN \E folder_order \in Orders(DOMAIN s.folder_changes),
              file_order \in Orders(DOMAIN s.file_changes) :
            LET r == merge_changes(Db, last.drive, changes, page_token, fault,
                                   folder_order, file_order)
            IN /\ Install(r.db)
               /\ last' = [last EXCEPT !.result = ErrorOf(r.err), !.path = "merge",
                                       !.items = changes, !.token = page_token,
                                       !.failed = r.err # "ok", !.io = r.io,
                                       !.stmts = r.n,
                                       !.folder_changes = s.folder_changes,
                                       !.file_changes = s.file_changes]

\* the caller has the result and goes on
Return ==
    /\ pc = "returned"
    /\ pc' = "idle"
    /\ last' = NoCall
    /\ UNCHANGED <<drives, folders, files, folder_changelog, file_changelog>>

\* one drive followed, any number of calls
Next ==
    \/ \E d \in {"D1"} : AddDrive(d, MaxList) /\ UNCHANGED calls
    \/ \E d \in {"D1"} : SyncDriveStart(d) /\ UNCHANGED calls
    \/ SyncDriveBootstrap(MaxList) /\ UNCHANGED calls
    \/ SyncDriveNetworkError /\ UNCHANGED calls
    \/ SyncDriveUnchanged(MaxPage) /\ UNCHANGED calls
    \/ SyncDriveMerge(MaxPage, PageChanges(last.drive)) /\ UNCHANGED calls
    \/ Return /\ UNCHANGED calls

Spec == Init /\ [][Next]_vars

\* two drives followed, MaxCalls calls
NextTwo ==
    \/ \E d \in DriveIds : calls < MaxCalls /\ AddDrive(d, MaxSeed) /\ calls' = calls + 1
    \/ \E d \in DriveIds : calls < MaxCalls /\ SyncDriveStart(d) /\ calls' = calls + 1
    \/ SyncDriveBootstrap(MaxSeed) /\ UNCHANGED calls
    \/ SyncDriveNetworkError /\ UNCHANGED calls
    \/ SyncDriveUnchanged(MaxSeed) /\ UNCHANGED calls
    \/ SyncDriveMerge(MaxSeed, PageChanges(last.drive)) /\ UNCHANGED calls
    \/ Return /\ UNCHANGED calls

SpecTwo == Init /\ [][NextTwo]_vars

\* one drive followed, any number of calls, the pages made of RootChanges
NextRoot ==
    \/ \E d \in {"D1"} : AddDrive(d, MaxSeed) /\ UNCHANGED calls
    \/ \E d \in {"D1"} : SyncDriveStart(d) /\ UNCHANGED calls
    \/ SyncDriveBootstrap(MaxSeed) /\ UNCHANGED calls
    \/ SyncDriveNetworkError /\ UNCHANGED calls
    \/ SyncDriveUnchanged(MaxSeed) /\ UNCHANGED calls
    \/ SyncDriveMerge(MaxPage, RootChanges(last.drive)) /\ UNCHANGED calls
    \/ Return /\ UNCHANGED calls

SpecRoot == Init /\ [][NextRoot]_vars

(***************************************************************************)
(* What the properties below speak of.                                     *)
(***************************************************************************)
\* sync_drive has returned from merge_changes
MergeReturned == pc = "returned" /\ last.op = "sync_drive" /\ last.path = "merge"

\* add_drive or sync_drive has returned from database::add_drive
BootstrapReturned ==
    /\ pc = "returned"
    /\ last.path = "bootstrap"
    /\ last.result # "Network"
    /\ ~HasDrive(last.pre, last.drive)

\* drives (and so the page token), folders and files are as before the call
StoreUnchanged ==
    /\ drives = last.pre.drives
    /\ folders = last.pre.folders
    /\ files = last.pre.files

\* the ids of the folders of drive d in the store db
FolderIdsOf(db, d) == {r.id : r \in {x \in db.folders : x.drive_id = d}}

\* the statements merge_changes runs for the page of the last call: the
\* token update, a rename per DriveChanged, one per folded change, the commit
StatementsOf(changes) ==
    Len(SelectSeq(changes, LAMBDA c : c.kind = "DriveChanged"))
        + Cardinality(DOMAIN last.folder_changes)
        + Cardinality(DOMAIN last.file_changes) + 2

\* the name the last DriveChanged of the page carries, "-" when it has none
RECURSIVE RenamedTo(_)
RenamedTo(changes) ==
    IF changes = <<>> THEN "-"
    ELSE IF changes[Len(changes)].kind = "DriveChanged" THEN changes[Len(changes)].name
         ELSE RenamedTo(SubSeq(changes, 1, Len(changes) - 1))

\* every operation of the page of the last call is visible in the Store
AllApplied ==
    LET d == last.drive
    IN /\ last.stmts = StatementsOf(last.items)
       /\ \A id \in DOMAIN last.file_changes :
            IF last.file_changes[id].remove THEN ~HasFile(Db, id, d)
            ELSE FileRow(last.file_changes[id].item) \in files
       /\ \A id \in DOMAIN last.folder_changes :
            last.folder_changes[id].remove => ~HasFolder(Db, id, d)
       /\ (\A id \in DOMAIN last.folder_changes : ~last.folder_changes[id].remove)
            => \A id \in DOMAIN last.folder_changes :
                    FolderRow(last.folder_changes[id].item) \in folders
       /\ (RenamedTo(last.items) # "-" /\ HasFolder(last.pre, d, d)
                /\ d \notin DOMAIN last.folder_changes)
            => \E r \in folders : r.id = d /\ r.drive_id = d /\ r.name = RenamedTo(last.items)

\* C1: when sync_drive(d) has returned from a merge, either the call
\* succeeded, the stored page token is the new one and every operation of the
\* page is visible, or the call failed and the token, the folders and the
\* files are as before the call.
C1_AtomicSync ==
    MergeReturned =>
        \/ /\ last.result = "Ok"
           /\ DriveRowOf(Db, last.drive).page_token = last.token
           /\ last.token # DriveRowOf(last.pre, last.drive).page_token
           /\ AllApplied
        \/ /\ last.result # "Ok"
           /\ StoreUnchanged

\* a merge of two operations failed at its second, after the token update
\* and the first had run
C1_Witness ==
    /\ MergeReturned
    /\ last.io
    /\ last.result = "Database"
    /\ Cardinality(DOMAIN last.folder_changes) + Cardinality(DOMAIN last.file_changes) = 2
    /\ last.stmts = 3
    /\ StoreUnchanged

\* the folded upserts of items of d whose parent is neither a folder of d
\* before the call nor upserted by the page
TornUpdates ==
    LET d == last.drive
        ups == {last.folder_changes[k] : k \in DOMAIN last.folder_changes}
                \cup {last.file_changes[k] : k \in DOMAIN last.file_changes}
        upserted == {k \in DOMAIN last.folder_changes : ~last.folder_changes[k].remove}
    IN {c \in ups : /\ ~c.remove
                    /\ c.item.drive_id = d
                    /\ c.item.parent \notin FolderIdsOf(last.pre, d)
                    /\ c.item.parent \notin upserted}

\* C2: when the page, the last change of an id winning, upserts an item of d
\* whose parent is neither a folder of d before the call nor upserted by the
\* page, sync_drive(d) returns PartialChangeList (Database when a statement
\* failed with an I/O error first) and the Store and the page token are
\* unchanged.
C2_TornPageRejected ==
    (MergeReturned /\ TornUpdates # {}) =>
        /\ last.result = IF last.io THEN "Database" ELSE "PartialChangeList"
        /\ StoreUnchanged

\* a file whose parent is unknown was reported, and the page was rejected
C2_Witness ==
    /\ MergeReturned
    /\ ~last.io
    /\ \E c \in TornUpdates : ~c.item.folder /\ c.item.parent = UnknownId
    /\ last.result = "PartialChangeList"
    /\ Cardinality(last.pre.folders) > 1
    /\ StoreUnchanged

\* C2 as it is stated: a page with an ItemChanged of an item of d whose
\* parent is neither a folder of d before the call nor an ItemChanged folder
\* of the page is rejected with PartialChangeList, Store and token unchanged.
C2_AsStated ==
    (/\ MergeReturned
     /\ ~last.io
     /\ \E k \in 1..Len(last.items) :
            /\ last.items[k].kind = "ItemChanged"
            /\ last.items[k].item.drive_id = last.drive
            /\ last.items[k].item.parent \notin FolderIdsOf(last.pre, last.drive)
            /\ \A j \in 1..Len(last.items) :
                    ~(/\ last.items[j].kind = "ItemChanged"
                      /\ last.items[j].item.folder
                      /\ last.items[j].item.id = last.items[k].item.parent))
        => (last.result = "PartialChangeList" /\ StoreUnchanged)

\* C3: when sync_drive(d) obtains the page token that is stored, it returns
\* Ok, the drives, folders and files are as before the call, and the folder,
\* file and path changelogs of d are empty.
C3_SameTokenIdempotent ==
    (pc = "returned" /\ last.op = "sync_drive" /\ last.path = "unchanged") =>
        /\ last.result = "Ok"
        /\ StoreUnchanged
        /\ \A r \in folder_changelog \cup file_changelog : r.drive_id # last.drive
        /\ get_changed_folders(Db, last.drive) = {}
        /\ \A order \in Orders(PathChangelog(Db, last.drive)) :
                get_changed_paths(Db, last.drive, order) = {}

\* the sync before had left changelog rows, and this one found the same token
C3_Witness ==
    /\ pc = "returned"
    /\ last.op = "sync_drive"
    /\ last.path = "unchanged"
    /\ last.hadlog
    /\ Cardinality(folders) > 1

\* the folders and the files of the listing of the last call
ListedFolders == FoldersOf(last.items)

ListedFiles == FilesOf(last.items)

\* no two entries of the sequence have the same id
DistinctIds(items) ==
    \A i, j \in 1..Len(items) : items[i].id = items[j].id => i = j

\* the ids the listing connects to the ids R by parent links
RECURSIVE Reachable(_, _)
Reachable(listed, R) ==
    LET T == R \cup {listed[k].id : k \in {i \in 1..Len(listed) : listed[i].parent \in R}}
    IN IF T = R THEN R ELSE Reachable(listed, T)

\* the listed folders form a tree under the root folder of the drive
TreeListing ==
    /\ DistinctIds(ListedFolders)
    /\ \A k \in 1..Len(ListedFolders) :
            /\ ListedFolders[k].id # last.drive
            /\ ListedFolders[k].id \in Reachable(ListedFolders, {last.drive})

\* C4: after add_drive(d) on a listing whose folders form a tree under the
\* root, in whatever order they are listed and with no I/O error, the call
\* returns Ok and every listed folder is in the Store with its listed parent.
C4_TreeAnyOrder ==
    (BootstrapReturned /\ ~last.io /\ TreeListing) =>
        /\ last.result = "Ok"
        /\ \A k \in 1..Len(ListedFolders) : FolderRow(ListedFolders[k]) \in folders

\* a child was listed before its parent, and both are in the Store
C4_Witness ==
    /\ BootstrapReturned
    /\ last.result = "Ok"
    /\ Len(ListedFolders) = 2
    /\ ListedFolders[1].parent = ListedFolders[2].id
    /\ ListedFolders[2].parent = last.drive
    /\ \A k \in 1..2 : FolderRow(ListedFolders[k]) \in folders

\* C5: add_drive(d) on a listing with a folder whose parent chain does not
\* reach the root returns Ok; the orphans and what is below them are not in
\* the Store, every other listed folder and file is.
C5_OrphanResilience ==
    LET d == last.drive
        reach == Reachable(ListedFolders, {d})
    IN (/\ BootstrapReturned
        /\ ~last.io
        /\ DistinctIds(ListedFolders)
        /\ DistinctIds(ListedFiles)
        /\ \E k \in 1..Len(ListedFolders) : ListedFolders[k].id \notin reach)
        => /\ last.result = "Ok"
           /\ \A k \in 1..Len(ListedFolders) :
                IF ListedFolders[k].id \in reach
                THEN FolderRow(ListedFolders[k]) \in folders
                ELSE ~HasFolder(Db, ListedFolders[k].id, d)
           /\ \A k \in 1..Len(ListedFiles) :
                IF ListedFiles[k].parent \in reach
                THEN FileRow(ListedFiles[k]) \in files
                ELSE ~HasFile(Db, ListedFiles[k].id, d)

\* C6: after add_drive(d) a listed file is in the Store if and only if its
\* parent is a folder of d in the Store, the root folder included.
C6_FileIffParentInserted ==
    (BootstrapReturned /\ ~last.io /\ DistinctIds(ListedFiles)) =>
        \A k \in 1..Len(ListedFiles) :
            HasFile(Db, ListedFiles[k].id, last.drive)
                <=> HasFolder(Db, ListedFiles[k].parent, last.drive)

\* C7: when a step of add_drive(d) has failed (a fetch, the insert of the
\* drive row, of the root folder, of a folder or of a file), the Store has no
\* drive row, no folder and no file of d.
C7_AddDriveAllOrNothing ==
    (/\ pc = "returned"
     /\ last.path = "bootstrap"
     /\ ~HasDrive(last.pre, last.drive)
     /\ (last.result = "Network" \/ last.failed))
        => /\ ~HasDrive(Db, last.drive)
           /\ \A r \in folders \cup files : r.drive_id # last.drive

\* the folded upserts of the page that carry another drive's id for an item
\* that was in drive d before the call
MovedAway ==
    LET d == last.drive
        ups == {last.folder_changes[k] : k \in DOMAIN last.folder_changes}
                \cup {last.file_changes[k] : k \in DOMAIN last.file_changes}
    IN {c \in ups : /\ ~c.remove
                    /\ c.item.drive_id # d
                    /\ IF c.item.folder THEN HasFolder(last.pre, c.item.id, d)
                       ELSE HasFile(last.pre, c.item.id, d)}

\* C8: after a successful sync_drive(A) whose page reports an item X of A
\* with the drive id of another drive, X is not among the folders and files
\* of A and the changelog of A has a delete row for X (the first two parts of
\* the claim; the rest of A being intact is not needed to decide it).
C8_CrossDriveMoveDeletes ==
    (MergeReturned /\ last.result = "Ok") =>
        \A c \in MovedAway :
            IF c.item.folder
            THEN /\ ~HasFolder(Db, c.item.id, last.drive)
                 /\ \E r \in folder_changelog :
                        r.id = c.item.id /\ r.drive_id = last.drive /\ r.deleted
            ELSE /\ ~HasFile(Db, c.item.id, last.drive)
                 /\ \E r \in file_changelog :
                        r.id = c.item.id /\ r.drive_id = last.drive /\ r.deleted

\* the folders of d the page removes that were in the Store before the call
RemovedFolders ==
    {id \in DOMAIN last.folder_changes :
        last.folder_changes[id].remove /\ HasFolder(last.pre, id, last.drive)}

\* the folders at or below F before the call through folders the page does
\* not upsert
StillBelow(F) ==
    Below([folders |-> {r \in last.pre.folders :
                            r.id = F \/ r.id \notin DOMAIN last.folder_changes
                                \/ last.folder_changes[r.id].remove}],
          last.drive, {F})

\* C9: after a successful sync_drive(d) whose page removes folder F, F is not
\* in the Store, no folder or file of d has F as an ancestor, every folder or
\* file that had F as an ancestor before the call (what the page itself
\* upserts, and what is below that, aside) is not in the Store, and
\* get_changed_folders(d) reports a row of the folder changelog for F.
C9_CascadeDelete ==
    (MergeReturned /\ last.result = "Ok") =>
        \A F \in RemovedFolders :
            LET d == last.drive
            IN /\ ~HasFolder(Db, F, d)
               /\ Below(Db, d, {F}) = {F}
               /\ \A r \in files : ~(r.drive_id = d /\ r.parent = F)
               /\ \A X \in StillBelow(F) : ~HasFolder(Db, X, d)
               /\ \A r \in last.pre.files :
                    (/\ r.drive_id = d
                     /\ r.parent \in StillBelow(F)
                     /\ ~(r.id \in DOMAIN last.file_changes
                            /\ ~last.file_changes[r.id].remove))
                        => ~HasFile(Db, r.id, d)
               /\ \E c \in get_changed_folders(Db, d) : c.folder.id = F

\* C10: get_changed_folders(d) reports every folder changelog row of d as
\* Deleted when its deleted flag is set and as Created when it is not.
C10_TagFollowsDeletedFlag ==
    \A r \in folder_changelog :
        [tag |-> IF r.deleted THEN "Deleted" ELSE "Created",
         folder |-> [id |-> r.id, drive_id |-> r.drive_id, name |-> r.name,
                     parent |-> r.parent]]
            \in get_changed_folders(Db, r.drive_id)

\* the rows of drive d in the two changelogs
ChangelogOf(d) == {r \in folder_changelog \cup file_changelog : r.drive_id = d}

\* C11: after a successful add_drive(d), called directly or by sync_drive on
\* a drive the Store does not have, the folder, file and path changelogs of d
\* are empty, and the drive row, the root folder and every listed folder and
\* file that was inserted are in the Store.
C11_BootstrapLeavesNoChangelog ==
    (BootstrapReturned /\ last.result = "Ok") =>
        LET d == last.drive
        IN /\ ChangelogOf(d) = {}
           /\ get_changed_folders(Db, d) = {}
           /\ \A order \in Orders(PathChangelog(Db, d)) :
                    get_changed_paths(Db, d, order) = {}
           /\ HasDrive(Db, d)
           /\ \E r \in folders : r.id = d /\ r.drive_id = d /\ r.parent = NoParent
           /\ (TreeListing /\ ~last.io) =>
                \A k \in 1..Len(ListedFolders) : FolderRow(ListedFolders[k]) \in folders

\* sync_drive on an unknown drive has inserted a folder and a file in it,
\* and no changelog row is left
C11_Witness ==
    /\ BootstrapReturned
    /\ last.op = "sync_drive"
    /\ last.result = "Ok"
    /\ \E r \in folders : r.drive_id = last.drive /\ r.parent = last.drive
    /\ \E r \in files : r.drive_id = last.drive
    /\ ChangelogOf(last.drive) = {}

\* C12: after a successful sync_drive(d) the folder and file changelogs of d
\* have rows only for what the page of this sync changed (the ids of its
\* folded changes, and the root when it carries a DriveChanged), whatever
\* calls came before; the same-token and the bootstrap path leave none.
C12_ChangelogIsThisSyncsDelta ==
    (pc = "returned" /\ last.op = "sync_drive" /\ last.result = "Ok") =>
        LET d == last.drive
        IN /\ \A r \in {x \in folder_changelog : x.drive_id = d} :
                /\ last.path = "merge"
                /\ \/ r.id \in DOMAIN last.folder_changes
                   \/ r.id = d /\ RenamedTo(last.items) # "-"
           /\ \A r \in {x \in file_changelog : x.drive_id = d} :
                /\ last.path = "merge"
                /\ r.id \in DOMAIN last.file_changes

\* the sync before had left rows; this one changed one file, and its row is
\* the only one
C12_Witness ==
    /\ MergeReturned
    /\ last.result = "Ok"
    /\ last.hadlog
    /\ DOMAIN last.folder_changes = {}
    /\ RenamedTo(last.items) = "-"
    /\ Cardinality(DOMAIN last.file_changes) = 1
    /\ Cardinality(ChangelogOf(last.drive)) = 1
    /\ Cardinality(last.pre.folders) > 1

\* C13: add_drive(d) called when the Store has a drive row of d returns an
\* error, and the drive row with its page token, the folders and the files
\* are as before the call.
C13_AddExistingDriveFails ==
    (pc = "returned" /\ last.op = "add_drive" /\ HasDrive(last.pre, last.drive)) =>
        /\ last.result \in {"Database", "Network", "PartialChangeList"}
        /\ StoreUnchanged

\* add_drive was called on a drive that has a folder and a file, the insert
\* of the drive row failed, and the tree is as it was
C13_Witness ==
    /\ pc = "returned"
    /\ last.op = "add_drive"
    /\ HasDrive(last.pre, last.drive)
    /\ last.result = "Database"
    /\ ~last.io
    /\ last.failed
    /\ Cardinality(folders) > 1
    /\ files # {}
    /\ StoreUnchanged

\* the strings that have the name N as their first component, over the
\* names the items can have and the depth the folders allow
PathsUnder(N) ==
    LET names == {ItemName(id) : id \in DriveIds \cup FolderIds \cup FileIds} \cup DriveNames
        one == {N \o "/" \o a : a \in names}
        two == {p \o "/" \o a : p \in one, a \in names}
        three == {p \o "/" \o a : p \in two, a \in names}
    IN {N} \cup one \cup two \cup three

\* C14: after a successful sync_drive(d) whose page carries DriveChanged with
\* the name N (the last one, when it carries several) and a new token, the
\* root folder of d has the name N, the page token of d is the new one, the
\* folder changelog has a row for the root, and every path get_changed_paths
\* returns for d has N as its first component.
C14_DriveRename ==
    (MergeReturned /\ last.result = "Ok" /\ RenamedTo(last.items) # "-") =>
        LET d == last.drive
            N == RenamedTo(last.items)
        IN /\ \E r \in folders : r.id = d /\ r.drive_id = d /\ r.name = N
           /\ DriveRowOf(Db, d).page_token = last.token
           /\ \E r \in folder_changelog : r.id = d /\ r.drive_id = d
           /\ \A order \in Orders(PathChangelog(Db, d)) :
                \A e \in get_changed_paths(Db, d, order) : e.path.path \in PathsUnder(N)

\* C16: in every state, each drive of the Store has exactly one folder with
\* no parent, and its id is the id of the drive.
C16_SingleRoot ==
    \A r \in drives :
        {f.id : f \in {x \in folders : x.drive_id = r.id /\ x.parent = NoParent}} = {r.id}

\* the paths of the folders of drive d that hang from its root, computed
\* from the root down: the root's name, then a child's name after its
\* parent's path
RECURSIVE GrowPaths(_, _, _)
GrowPaths(db, d, map) ==
    LET next == {r \in db.folders : r.drive_id = d /\ r.parent \in DOMAIN map
                                      /\ r.id \notin DOMAIN map}
    IN IF next = {} THEN map
       ELSE GrowPaths(db, d,
                [id \in DOMAIN map \cup {r.id : r \in next} |->
                    IF id \in DOMAIN map THEN map[id]
                    ELSE LET r == CHOOSE x \in next : x.id = id
                         IN map[r.parent] \o "/" \o r.name])

TreePaths(db, d) ==
    LET roots == {r \in db.folders : r.drive_id = d /\ r.id = d /\ r.parent = NoParent}
    IN GrowPaths(db, d, [id \in {r.id : r \in roots} |->
                            (CHOOSE r \in roots : r.id = id).name])

\* the path of a changelog row of a known tree: the root's own name, or the
\* row's name after the path of its parent
ExpectedPath(tp, r) ==
    IF r.parent = NoParent THEN r.name ELSE tp[r.parent] \o "/" \o r.name

\* C15: after a successful sync of drive d, every folder and file the sync
\* touched (it has a changelog row) whose parent hangs from the root of d, and
\* the root itself when renamed, has an entry in get_changed_paths whose path
\* is the drive name, the names of the ancestors from the root down and the
\* item's own name joined by '/', over the current folder table, whatever
\* order the rows are read in; and every folder or file the page upserted
\* and that is in the tree afterwards is so touched.
C15_ChangedPathIsChain ==
    (MergeReturned /\ last.result = "Ok") =>
        LET d == last.drive
            tp == TreePaths(Db, d)
            known(r) == r.drive_id = d /\ (r.parent \in DOMAIN tp \/ (r.id = d /\ r.parent = NoParent))
        IN /\ \A order \in Orders(PathChangelog(Db, d)) :
                /\ \A r \in {x \in folder_changelog : known(x)} :
                      \E e \in get_changed_paths(Db, d, order) : e.path.path = ExpectedPath(tp, r)
                /\ \A r \in {x \in file_changelog : known(x)} :
                      \E e \in get_changed_paths(Db, d, order) : e.path.path = ExpectedPath(tp, r)
           /\ \A id \in DOMAIN last.folder_changes :
                (~last.folder_changes[id].remove /\ last.folder_changes[id].item.drive_id = d
                    /\ id \in DOMAIN tp) =>
                    \E r \in folder_changelog : r.id = id /\ known(r)
           /\ \A id \in DOMAIN last.file_changes :
                (~last.file_changes[id].remove /\ last.file_changes[id].item.drive_id = d
                    /\ \E f \in files : f.id = id /\ f.drive_id = d /\ f.parent \in DOMAIN tp) =>
                    \E r \in file_changelog : r.id = id /\ known(r)

\* a sync touched a folder two levels below the root and a file, and the
\* path query returns the chain of the folder
C15_Witness ==
    /\ MergeReturned /\ last.result = "Ok"
    /\ \E r \in folder_changelog : r.drive_id = last.drive /\ r.parent \in FolderIds
                                     /\ r.parent \in DOMAIN TreePaths(Db, last.drive)
    /\ \E r \in file_changelog : r.drive_id = last.drive
                                   /\ r.parent \in DOMAIN TreePaths(Db, last.drive)
    /\ \E order \in Orders(PathChangelog(Db, last.drive)) :
          \E e \in get_changed_paths(Db, last.drive, order) :
             e.path.path \in {n \o "/a/b" : n \in DriveNames} \cup {n \o "/b/a" : n \in DriveNames}

\* the rows of drive b: its drive row, folders, files and changelog rows
RowsOfDrive(b) ==
    <<{r \in drives : r.id = b},
      {r \in folders : r.drive_id = b},
      {r \in files : r.drive_id = b},
      {r \in folder_changelog : r.drive_id = b},
      {r \in file_changelog : r.drive_id = b}>>

\* C17: no step of sync_drive(A) creates, modifies or deletes a folder, a
\* file, a changelog row or the page token of another drive B, also when the
\* page of A carries items whose drive_id is B.
C17_SyncLeavesOtherDrives ==
    [][last'.op = "sync_drive" =>
          \A b \in DriveIds \ {last'.drive} : RowsOfDrive(b)' = RowsOfDrive(b)]_vars

\* the upserts of the page of the last call, and those among them whose
\* parent is neither a folder of the drive before the call nor upserted by
\* the page
PageUpserts ==
    {c \in {last.folder_changes[k] : k \in DOMAIN last.folder_changes}
              \cup {last.file_changes[k] : k \in DOMAIN last.file_changes} : ~c.remove}

DanglingUpserts ==
    {c \in PageUpserts :
        /\ c.item.parent \notin FolderIdsOf(last.pre, last.drive)
        /\ c.item.parent \notin {k \in DOMAIN last.folder_changes :
                                      ~last.folder_changes[k].remove}}

\* the outcome of the merge of the last call, had the entries of
\* folder_changes been applied in folder_order and those of file_changes in
\* file_order
OutcomeIn(folder_order, file_order) ==
    LET before == [drives |-> last.pre.drives, folders |-> last.pre.folders,
                   files |-> last.pre.files,
                   folder_changelog |-> {}, file_changelog |-> {}]
        r == merge_changes(before, last.drive, last.items, last.token, 0,
                           folder_order, file_order)
    IN <<ErrorOf(r.err), r.db.drives, r.db.folders, r.db.files>>

\* C18: a page applied without I/O error succeeds when every parent an
\* upsert refers to is a folder of the drive before the call or upserted by
\* the page, fails with PartialChangeList only when some parent is neither,
\* and its result and the resulting drives, folders and files are the same
\* for every order of the entries of folder_changes and of file_changes.
C18_OrderIndependent ==
    (MergeReturned /\ ~last.io) =>
        /\ DanglingUpserts = {} => last.result = "Ok"
        /\ last.result = "PartialChangeList" => DanglingUpserts # {}
        /\ \A folder_order \in Orders(DOMAIN last.folder_changes),
              file_order \in Orders(DOMAIN last.file_changes) :
                OutcomeIn(folder_order, file_order) = <<last.result, drives, folders, files>>

\* C19: the step of sync_drive that finds the fetched token equal to the
\* stored one returns Ok and leaves the drive rows, the folders, the files
\* and both changelogs as they were, whatever changes came with the token.
C19_SameTokenNoMerge ==
    [][(pc = "syncing" /\ pc' = "returned" /\ last'.path = "unchanged") =>
          /\ last'.result = "Ok"
          /\ UNCHANGED <<drives, folders, files, folder_changelog, file_changelog>>]_vars

\* the stored token came back with a page that renames the drive and
\* removes a folder the drive holds
C19_Witness ==
    /\ pc = "returned"
    /\ last.op = "sync_drive"
    /\ last.path = "unchanged"
    /\ \E i, j \in 1..Len(last.items) :
          /\ last.items[i].kind = "DriveChanged"
          /\ last.items[j].kind = "ItemRemoved"
          /\ HasFolder(Db, last.items[j].id, last.drive)

\* the ids whose last change in the page of the last call is ItemRemoved
RemovedLast ==
    {last.items[i].id : i \in {k \in 1..Len(last.items) :
        /\ last.items[k].kind = "ItemRemoved"
        /\ \A j \in (k + 1)..Len(last.items) :
              ~(last.items[j].kind = "ItemChanged" /\ last.items[j].item.id = last.items[k].id)}}

\* C20: after a successful sync of drive d whose page ends the changes of an
\* id with ItemRemoved, the id being a folder or a file of d before the call,
\* d holds no folder and no file with that id (a later sync without remote
\* activity finds the stored token and changes nothing, so what remains after
\* this sync remains).
C20_RemovalsConverge ==
    (MergeReturned /\ last.result = "Ok") =>
        \A id \in RemovedLast :
            (HasFolder(last.pre, id, last.drive) \/ HasFile(last.pre, id, last.drive)) =>
                ~HasFolder(Db, id, last.drive) /\ ~HasFile(Db, id, last.drive)

\* the stored page token of drive d, -1 while the Store has no row for d
StoredToken(db, d) == IF HasDrive(db, d) THEN DriveRowOf(db, d).page_token ELSE -1

\* C21: the stored page token of a drive changes in two ways only: the
\* bootstrap of that drive returns Ok and has written its start token, or a
\* sync_drive of that drive returns Ok from a merge that committed, has
\* written the new token of its page and every operation folded from the
\* page is applied. A call that returns an error leaves every drive row as
\* it was.
C21_TokenIsHighWaterMark ==
    [][/\ \A d \in DriveIds :
            StoredToken(Db, d)' # StoredToken(Db, d) =>
                /\ last'.drive = d
                /\ last'.result = "Ok"
                /\ StoredToken(Db, d)' = last'.token
                /\ \/ last'.path = "bootstrap" /\ StoredToken(Db, d) = -1
                   \/ /\ last'.path = "merge" /\ last'.op = "sync_drive"
                      /\ StoredToken(Db, d) # -1
                      /\ AllApplied'
       /\ last'.result \in {"Network", "Database", "PartialChangeList"} => drives' = drives
      ]_vars

\* a merge ran its token update, was rejected at the commit for a parent
\* the Store does not hold, and the stored token is the one of before
C21_Witness ==
    /\ MergeReturned
    /\ last.result = "PartialChangeList"
    /\ last.stmts >= 2
    /\ StoredToken(Db, last.drive) = StoredToken(last.pre, last.drive)
    /\ StoredToken(Db, last.drive) # last.token

\* the row of the path string p that the SELECT returned last
LatestRow(order, p) ==
    order[CHOOSE k \in 1..Len(order) :
            /\ order[k].path = p
            /\ \A j \in (k + 1)..Len(order) : order[j].path # p]

\* C22: whatever order the rows of path_changelog are read in,
\* get_changed_paths returns one entry for each path string a row of the
\* drive resolves to and no two entries with the same path string, and the
\* entry of a path string is made from the latest row of that path string,
\* the row read last: its id and its Created or Deleted tag are that row's.
C22_OneEntryPerPath ==
    \A d \in DriveIds :
        \A order \in Orders(PathChangelog(Db, d)) :
            LET entries == get_changed_paths(Db, d, order)
            IN /\ \A e1, e2 \in entries : e1.path.path = e2.path.path => e1 = e2
               /\ {e.path.path : e \in entries} = {r.path : r \in PathChangelog(Db, d)}
               /\ \A e \in entries :
                    LET r == LatestRow(order, e.path.path)
                    IN /\ e.path.id = r.id
                       /\ e.path.folder = r.folder
                       /\ e.tag = IF r.deleted THEN "Deleted" ELSE "Created"

\* a sync has removed a folder and created a file of the same name under
\* the same parent: two rows, one deleted and one not, resolve to one path
C22_Witness ==
    /\ pc = "returned"
    /\ last.result = "Ok"
    /\ \E r1, r2 \in PathChangelog(Db, last.drive) :
          /\ r1.path = r2.path
          /\ r1.deleted /\ ~r2.deleted
          /\ r1.folder /\ ~r2.folder

\* the loop of process_folders run for at most `fuel` turns of
\* `while let Some(parent) = queue.pop_front()`: whether the queue emptied,
\* the transaction, and the ids of the folders created, in their order
RECURSIVE QueueTrace(_, _, _, _, _)
QueueTrace(s, fault, listed, fuel, created) ==
    IF s.queue = <<>> THEN [done |-> TRUE, tx |-> s.tx, created |-> created]
    ELSE IF fuel = 0 THEN [done |-> FALSE, tx |-> s.tx, created |-> created]
    ELSE LET popped == [s EXCEPT !.queue = Tail(@)]
             t == CreateChildren(popped, fault, Head(s.queue),
                                 FolderMapGet(listed, Head(s.queue)), 1)
         IN QueueTrace(t, fault, listed, fuel - 1,
                       created \o SubSeq(t.queue, Len(popped.queue) + 1, Len(t.queue)))

\* the transaction of add_drive when it reaches process_folders, for the
\* call that has returned
BeforeProcessFolders(fault) ==
    LET d == last.drive
        db == [drives |-> last.pre.drives, folders |-> last.pre.folders,
               files |-> last.pre.files, folder_changelog |-> {}, file_changelog |-> {}]
        t1 == Run(Begin(db), fault, DriveCreate(db, d, last.token))
    IN Run(t1, fault, FolderCreate(t1.db, [id |-> d, drive_id |-> d, name |-> "n0",
                                           parent |-> NoParent]))

\* C23: for the listing of every bootstrap that has returned, whatever
\* statement an I/O error hits, the loop of process_folders empties its
\* queue within one turn for the root and one for each listed folder, no
\* folder id is created twice, and the loop ends in the transaction
\* process_folders returns; when the bootstrap succeeded without I/O error,
\* the folders of the drive are the root and the folders the loop created.
C23_ProcessFoldersTerminates ==
    BootstrapReturned =>
        LET d == last.drive
        IN /\ \A fault \in 0..(MaxList + 3) :
                LET t2 == BeforeProcessFolders(fault)
                    r == QueueTrace([tx |-> t2, queue |-> <<d>>, folder_ids |-> {d}],
                                    fault, ListedFolders, Len(ListedFolders) + 1, <<>>)
                IN t2.err = "ok" =>
                    /\ r.done
                    /\ Len(r.created) <= Len(ListedFolders)
                    /\ \A i, j \in 1..Len(r.created) : r.created[i] = r.created[j] => i = j
                    /\ r.tx = process_folders(t2, fault, d, ListedFolders)
           /\ (last.result = "Ok" /\ ~last.io) =>
                LET r == QueueTrace([tx |-> BeforeProcessFolders(0), queue |-> <<d>>,
                                     folder_ids |-> {d}],
                                    0, ListedFolders, Len(ListedFolders) + 1, <<>>)
                IN FolderIdsOf(Db, d) = {d} \cup {r.created[i] : i \in 1..Len(r.created)}

\* a bootstrap has returned Ok for a listing that names a folder twice,
\* under the root and under itself, and the folder is in the Store once
C23_Witness ==
    /\ BootstrapReturned
    /\ last.result = "Ok"
    /\ Len(ListedFolders) = 2
    /\ \A k \in 1..2 : ListedFolders[k].id = "F1"
    /\ \E k \in 1..2 : ListedFolders[k].parent = last.drive
    /\ \E k \in 1..2 : ListedFolders[k].parent = "F1"
    /\ Cardinality({r \in folders : r.id = "F1"}) = 1

\* a bootstrap has returned Ok for a listing whose two folders name each
\* other as parent, and neither is in the Store
C23_CycleWitness ==
    /\ BootstrapReturned
    /\ last.result = "Ok"
    /\ Len(ListedFolders) = 2
    /\ ListedFolders[1].id # ListedFolders[2].id
    /\ ListedFolders[1].parent = ListedFolders[2].id
    /\ ListedFolders[2].parent = ListedFolders[1].id
    /\ FolderIdsOf(Db, last.drive) = {last.drive}

====
